---- MODULE Spec2Model ----
(***************************************************************************)
(* Model of challenge_number_399_easy_letter_value_sum.py: LetterSum and   *)
(* WordAnalyzer (process_file, analyze_word_pais, print_results).          *)
(*                                                                         *)
(* A character is its code point (ord); a string is a sequence of code     *)
(* points, so "ab" is <<97, 98>> and a blank line is <<>>.  Python dicts   *)
(* iterate in insertion order: most_common_words is a sequence of          *)
(* [key, words] records in insertion order; words_length_and_sum is only   *)
(* ever read with .get, so it is a function on its set of keys.            *)
(***************************************************************************)
EXTENDS Integers, Sequences, FiniteSets, TLC

VARIABLES
    corpus,                  \* the lines of the input file, "\n" stripped
    fileOK,                  \* whether open(self.filename) succeeds
    pc,                      \* position of the main program
    idx,                     \* lines of the file consumed by the running process_file
    passes,                  \* calls of process_file started on this analyzer
    once,                    \* history: the indices as they were after the first build
    odd_letter_count,
    most_common_words,
    words_length_and_sum,
    MAXLEN,
    MAXSUM,
    length_diff,             \* argument of analyze_word_pais
    min_sum,                 \* argument of _find_no_common_pairs
    word_pairs_length_diff,
    word_pairs_no_common,
    most_common,             \* value returned by _find_most_common_word_sum
    chainlist,
    length,                  \* loop variable of find_longest_unique
    longest_list,            \* value returned by find_longest_unique
    err,                     \* the exception that ended the run, or "none"
    string,                  \* argument of a direct LetterSum.calculate call
    calc_result              \* its return value

vars == <<corpus, fileOK, pc, idx, passes, once, odd_letter_count,
          most_common_words, words_length_and_sum, MAXLEN, MAXSUM,
          length_diff, min_sum, word_pairs_length_diff, word_pairs_no_common,
          most_common, chainlist, length, longest_list, err, string,
          calc_result>>

-----------------------------------------------------------------------------
(* Bounds and inputs *)

MaxLines == 3

MaxStrLen == 3

DEFAULT_LENGTH_DIFF == 11

DEFAULT_MIN_SUM == 188

SeqsUpTo(S, n) == UNION {[1..k -> S] : k \in 0..n}

\* "", "ab", "ba", "c", "d", "e", "aa", "A-a", "é"
Vocabulary ==
    { <<>>, <<97, 98>>, <<98, 97>>, <<99>>, <<100>>, <<101>>, <<97, 97>>,
      <<65, 45, 97>>, <<233>> }

\* 'a', 'z', 'A', '-', 'é', 'É'
CalcChars == {97, 122, 65, 45, 233, 201}

geographically == <<103,101,111,103,114,97,112,104,105,99,97,108,108,121>>

eavesdropper == <<101,97,118,101,115,100,114,111,112,112,101,114>>

woodworker == <<119,111,111,100,119,111,114,107,101,114>>

oxymorons == <<111,120,121,109,111,114,111,110,115>>

ExampleCorpus == <<geographically, eavesdropper, woodworker, oxymorons>>

ExampleWords == {geographically, eavesdropper, woodworker, oxymorons}

\* analyze_word_pais is called with length_diff = 11 by the main program; the
\* smaller values are other arguments of the same method.
LengthDiffs == {0, 1, DEFAULT_LENGTH_DIFF}

\* analyze_word_pais passes min_sum = 188; the smaller values are direct calls
\* of _find_no_common_pairs(min_sum).
MinSums == {2, 3, DEFAULT_MIN_SUM}

-----------------------------------------------------------------------------
(* LetterSum.calculate *)

\* str.isalpha on one character, for the code points 0..255
IsAlpha(c) ==
    \/ c \in 65..90
    \/ c \in 97..122
    \/ c \in {170, 181, 186}
    \/ c \in 192..214
    \/ c \in 216..246
    \/ c \in 248..255

\* str.lower on one character, for the code points 0..255
Lower(c) ==
    IF c \in 65..90 \/ c \in 192..214 \/ c \in 216..222 THEN c + 32 ELSE c

\* ord(i) - 96 for a character i of string.lower() that passes i.isalpha()
LetterValue(c) ==
    LET i == Lower(c) IN IF IsAlpha(i) THEN i - 96 ELSE 0

RECURSIVE Calculate(_)
Calculate(str) ==
    IF str = <<>> THEN 0 ELSE LetterValue(Head(str)) + Calculate(Tail(str))

-----------------------------------------------------------------------------
(* Helpers for Python built-ins *)

Max2(a, b) == IF a >= b THEN a ELSE b

MinOf(S) == CHOOSE x \in S : \A y \in S : x <= y

RECURSIVE Flatten(_)
Flatten(ss) == IF ss = <<>> THEN <<>> ELSE Head(ss) \o Flatten(Tail(ss))

\* max(seq, key=len(field)): the first element whose measure is the largest
FirstMaxIndex(measures) ==
    CHOOSE i \in DOMAIN measures :
        /\ \A j \in DOMAIN measures : measures[j] <= measures[i]
        /\ \A j \in 1..(i - 1) : measures[j] < measures[i]

\* set(w)
CharSet(w) == {w[i] : i \in DOMAIN w}

-----------------------------------------------------------------------------
(* WordAnalyzer._process_line *)

HasKey(mcw, k) == \E i \in DOMAIN mcw : mcw[i].key = k

\* self.most_common_words[ls], a defaultdict(list) read
Bucket(mcw, k) ==
    IF HasKey(mcw, k)
    THEN mcw[CHOOSE i \in DOMAIN mcw : mcw[i].key = k].words
    ELSE <<>>

BucketPrepend(mcw, ls, line) ==
    IF HasKey(mcw, ls)
    THEN [i \in DOMAIN mcw |->
            IF mcw[i].key = ls
            THEN [mcw[i] EXCEPT !.words = <<line>> \o @]
            ELSE mcw[i]]
    ELSE Append(mcw, [key |-> ls, words |-> <<line>>])

BucketReplace(mcw, ls, line) ==
    IF HasKey(mcw, ls)
    THEN [i \in DOMAIN mcw |->
            IF mcw[i].key = ls
            THEN [mcw[i] EXCEPT !.words = <<line>>]
            ELSE mcw[i]]
    ELSE Append(mcw, [key |-> ls, words |-> <<line>>])

\* self.most_common_words[ls].append(line)
BucketAppend(mcw, ls, line) ==
    IF HasKey(mcw, ls)
    THEN [i \in DOMAIN mcw |->
            IF mcw[i].key = ls
            THEN [mcw[i] EXCEPT !.words = Append(@, line)]
            ELSE mcw[i]]
    ELSE Append(mcw, [key |-> ls, words |-> <<line>>])

IndexPutIfAbsent(d, key, line) ==
    [k \in DOMAIN d \cup {key} |-> IF k \in DOMAIN d THEN d[k] ELSE line]

\* self.words_length_and_sum[(len(line), ls)] = line
IndexPut(d, key, line) ==
    [k \in DOMAIN d \cup {key} |-> IF k = key THEN line ELSE d[k]]

\* self.words_length_and_sum.get(key, "")
Get(d, key) == IF key \in DOMAIN d THEN d[key] ELSE <<>>

-----------------------------------------------------------------------------
(* WordAnalyzer._find_length_diff_pairs *)

HasLen(ld, n) == \E i \in DOMAIN ld : ld[i].len = n

LenGroup(ld, n) == ld[CHOOSE i \in DOMAIN ld : ld[i].len = n].words

\* length_dict[len(word)].append(word) for every word of the bucket
RECURSIVE LengthDict(_, _)
LengthDict(words, ld) ==
    IF words = <<>> THEN ld
    ELSE LET word == Head(words)
             n == Len(word)
             ld2 == IF HasLen(ld, n)
                    THEN [i \in DOMAIN ld |->
                            IF ld[i].len = n
                            THEN [ld[i] EXCEPT !.words = Append(@, word)]
                            ELSE ld[i]]
                    ELSE Append(ld, [len |-> n, words |-> <<word>>])
         IN LengthDict(Tail(words), ld2)

FirstTargetPairs(base_words, target_words) ==
    [k \in 1..Len(base_words) |-> <<base_words[k], target_words[1]>>]

\* for w1 in base_words: for w2 in target_words: append((w1, w2))
CrossPairs(base_words, target_words) ==
    [k \in 1..(Len(base_words) * Len(target_words)) |->
        << base_words[((k - 1) \div Len(target_words)) + 1],
           target_words[((k - 1) % Len(target_words)) + 1] >>]

\* the pairs one sum bucket contributes
BucketLengthDiffPairs(words, diff) ==
    LET ld == LengthDict(words, <<>>)
        perBase == [g \in DOMAIN ld |->
                      LET target_length == ld[g].len + diff
                      IN IF HasLen(ld, target_length)
                         THEN CrossPairs(ld[g].words, LenGroup(ld, target_length))
                         ELSE <<>>]
    IN Flatten(perBase)

FindLengthDiffPairs(mcw, diff) ==
    Flatten([b \in DOMAIN mcw |-> BucketLengthDiffPairs(mcw[b].words, diff)])

-----------------------------------------------------------------------------
(* WordAnalyzer._find_no_common_pairs *)

SumQualifiesInclusive(key, minsum) == key >= minsum

\* if key > min_sum
SumQualifies(key, minsum) == key > minsum

\* set(values[start]).isdisjoint(set(values[end]))
IsDisjoint(w1, w2) == CharSet(w1) \cap CharSet(w2) = {}

\* the pairs (values[start], values[end]) for one start, end ascending
PairsFrom(values, start) ==
    LET ends == [k \in 1..(Len(values) - start) |-> start + k]
        hits == SelectSeq(ends, LAMBDA e : IsDisjoint(values[start], values[e]))
    IN [k \in 1..Len(hits) |-> <<values[start], values[hits[k]]>>]

BucketNoCommonPairs(values) ==
    IF Len(values) >= 2
    THEN Flatten([start \in 1..(Len(values) - 1) |-> PairsFrom(values, start)])
    ELSE <<>>

FindNoCommonPairs(mcw, minsum) ==
    Flatten([b \in DOMAIN mcw |->
                IF SumQualifies(mcw[b].key, minsum)
                THEN BucketNoCommonPairs(mcw[b].words)
                ELSE <<>>])

-----------------------------------------------------------------------------
(* WordAnalyzer.find_longest_unique *)

NextSumNoIncrement(chain) == Calculate(chain[Len(chain)])

\* next_sum = LetterSum.calculate(chain[-1]) + 1
NextSum(chain) == Calculate(chain[Len(chain)]) + 1

\* for letter_sum in range(lo, hi): if word := d.get((length, letter_sum), ""): break
\* the letter_sum the loop stops at, or -1 when it runs out
FirstSumIn(d, len, lo, hi) ==
    LET S == {s \in lo..(hi - 1) : Get(d, <<len, s>>) # <<>>}
    IN IF S = {} THEN -1 ELSE MinOf(S)

AlwaysBranch(letter_sum, next_sum) == FALSE

\* if letter_sum == next_sum: chain.append(word)
ExtendsInPlace(letter_sum, next_sum) == letter_sum = next_sum

\* the body of "for chain in chainlist" for one chain: what becomes of the chain,
\* and what it adds to templist
Extend(d, chain, len, maxsum) ==
    LET next_sum == NextSum(chain)
        letter_sum == FirstSumIn(d, len, next_sum, maxsum)
    IN IF letter_sum = -1
       THEN [chain |-> chain, temp |-> <<>>]
       ELSE IF ExtendsInPlace(letter_sum, next_sum)
            THEN [chain |-> Append(chain, d[<<len, letter_sum>>]), temp |-> <<>>]
            ELSE [chain |-> chain,
                  temp |-> <<Append(chain, d[<<len, letter_sum>>])>>]

\* "Start new chains if possible": the chains the last loop appends
StartChains(d, len, maxsum) ==
    LET letter_sum == FirstSumIn(d, len, 1, maxsum)
    IN IF letter_sum = -1 THEN <<>> ELSE << <<d[<<len, letter_sum>>]>> >>

\* one iteration of "for length in range(self.MAXLEN, 0, -1)"
LengthStep(d, chains, len, maxsum) ==
    LET ext == [i \in DOMAIN chains |-> Extend(d, chains[i], len, maxsum)]
        kept == [i \in DOMAIN chains |-> ext[i].chain]
        templist == Flatten([i \in DOMAIN chains |-> ext[i].temp])
    IN kept \o templist \o StartChains(d, len, maxsum)

-----------------------------------------------------------------------------
(* The program *)

NoIndex == [mcw |-> <<>>, wls |-> <<>>]

\* WordAnalyzer.__init__, and the locals of the methods before they run
Fresh ==
    /\ idx = 0
    /\ passes = 0
    /\ once = NoIndex
    /\ odd_letter_count = 0
    /\ most_common_words = <<>>
    /\ words_length_and_sum = <<>>
    /\ MAXLEN = 0
    /\ MAXSUM = 0
    /\ length_diff = 0
    /\ min_sum = 0
    /\ word_pairs_length_diff = <<>>
    /\ word_pairs_no_common = <<>>
    /\ most_common = <<>>
    /\ chainlist = <<>>
    /\ length = 0
    /\ longest_list = <<>>
    /\ err = "none"

Init ==
    /\ corpus \in SeqsUpTo(Vocabulary, MaxLines)
    /\ fileOK \in BOOLEAN
    /\ Fresh
    /\ pc = "start"
    /\ string = <<>>
    /\ calc_result = -1

InitExample ==
    /\ corpus \in SeqsUpTo(ExampleWords, Len(ExampleCorpus))
    /\ fileOK \in BOOLEAN
    /\ Fresh
    /\ pc = "start"
    /\ string = <<>>
    /\ calc_result = -1

\* process_file: open(self.filename) succeeds
OpenFile ==
    /\ pc = "start"
    /\ fileOK
    /\ pc' = "reading"
    /\ passes' = 1
    /\ UNCHANGED <<corpus, fileOK, idx, once, odd_letter_count,
                   most_common_words, words_length_and_sum, MAXLEN, MAXSUM,
                   length_diff, min_sum, word_pairs_length_diff,
                   word_pairs_no_common, most_common, chainlist, length,
                   longest_list, err, string, calc_result>>

\* process_file: open(self.filename) raises
OpenFail ==
    /\ pc = "start"
    /\ ~fileOK
    /\ pc' = "error"
    /\ err' = "OSError"
    /\ UNCHANGED <<corpus, fileOK, idx, passes, once, odd_letter_count,
                   most_common_words, words_length_and_sum, MAXLEN, MAXSUM,
                   length_diff, min_sum, word_pairs_length_diff,
                   word_pairs_no_common, most_common, chainlist, length,
                   longest_list, string, calc_result>>

\* one iteration of "for line in file": _process_line(line)
ProcessLine ==
    /\ pc = "reading"
    /\ idx < Len(corpus)
    /\ LET line == corpus[idx + 1]
           ls == Calculate(line)
       IN /\ odd_letter_count' =
                IF ls % 2 # 0 THEN odd_letter_count + 1 ELSE odd_letter_count
          /\ most_common_words' = BucketAppend(most_common_words, ls, line)
          /\ words_length_and_sum' =
                IndexPut(words_length_and_sum, <<Len(line), ls>>, line)
          /\ MAXLEN' = Max2(MAXLEN, Len(line))
          /\ MAXSUM' = Max2(MAXSUM, ls)
    /\ idx' = idx + 1
    /\ UNCHANGED <<corpus, fileOK, pc, passes, once, length_diff, min_sum,
                   word_pairs_length_diff, word_pairs_no_common, most_common,
                   chainlist, length, longest_list, err, string, calc_result>>

FileDone == pc = "reading" /\ idx = Len(corpus)

\* process_file called a second time on the same analyzer, over the same file
ProcessFileAgain ==
    /\ FileDone
    /\ passes = 1
    /\ passes' = 2
    /\ idx' = 0
    /\ once' = [mcw |-> most_common_words, wls |-> words_length_and_sum]
    /\ UNCHANGED <<corpus, fileOK, pc, odd_letter_count, most_common_words,
                   words_length_and_sum, MAXLEN, MAXSUM, length_diff, min_sum,
                   word_pairs_length_diff, word_pairs_no_common, most_common,
                   chainlist, length, longest_list, err, string, calc_result>>

\* analyze_word_pais(length_diff): both pair finders
AnalyzeWordPais ==
    /\ FileDone
    /\ \E d \in LengthDiffs, m \in MinSums :
          /\ length_diff' = d
          /\ min_sum' = m
          /\ word_pairs_length_diff' =
                word_pairs_length_diff \o FindLengthDiffPairs(most_common_words, d)
          /\ word_pairs_no_common' =
                word_pairs_no_common \o FindNoCommonPairs(most_common_words, m)
    /\ pc' = "print"
    /\ UNCHANGED <<corpus, fileOK, idx, passes, once, odd_letter_count,
                   most_common_words, words_length_and_sum, MAXLEN, MAXSUM,
                   most_common, chainlist, length, longest_list, err, string,
                   calc_result>>

\* print_results: _find_most_common_word_sum returns
FindMostCommonWordSum ==
    /\ pc = "print"
    /\ most_common_words # <<>>
    /\ most_common' =
          most_common_words[FirstMaxIndex(
              [i \in DOMAIN most_common_words |-> Len(most_common_words[i].words)])]
    /\ pc' = "chain"
    /\ chainlist' = <<>>
    /\ length' = MAXLEN
    /\ UNCHANGED <<corpus, fileOK, idx, passes, once, odd_letter_count,
                   most_common_words, words_length_and_sum, MAXLEN, MAXSUM,
                   length_diff, min_sum, word_pairs_length_diff,
                   word_pairs_no_common, longest_list, err, string, calc_result>>

\* print_results: max() of an empty most_common_words raises ValueError
FindMostCommonWordSumFail ==
    /\ pc = "print"
    /\ most_common_words = <<>>
    /\ pc' = "error"
    /\ err' = "ValueError"
    /\ UNCHANGED <<corpus, fileOK, idx, passes, once, odd_letter_count,
                   most_common_words, words_length_and_sum, MAXLEN, MAXSUM,
                   length_diff, min_sum, word_pairs_length_diff,
                   word_pairs_no_common, most_common, chainlist, length,
                   longest_list, string, calc_result>>

\* find_longest_unique: one iteration of the loop over lengths
ChainLengthStep ==
    /\ pc = "chain"
    /\ length >= 1
    /\ chainlist' = LengthStep(words_length_and_sum, chainlist, length, MAXSUM)
    /\ length' = length - 1
    /\ UNCHANGED <<corpus, fileOK, pc, idx, passes, once, odd_letter_count,
                   most_common_words, words_length_and_sum, MAXLEN, MAXSUM,
                   length_diff, min_sum, word_pairs_length_diff,
                   word_pairs_no_common, most_common, longest_list, err, string,
                   calc_result>>

\* find_longest_unique: return max(chainlist, key=len)
ChainMax ==
    /\ pc = "chain"
    /\ length = 0
    /\ chainlist # <<>>
    /\ longest_list' =
          chainlist[FirstMaxIndex([i \in DOMAIN chainlist |-> Len(chainlist[i])])]
    /\ pc' = "done"
    /\ UNCHANGED <<corpus, fileOK, idx, passes, once, odd_letter_count,
                   most_common_words, words_length_and_sum, MAXLEN, MAXSUM,
                   length_diff, min_sum, word_pairs_length_diff,
                   word_pairs_no_common, most_common, chainlist, length, err,
                   string, calc_result>>

\* find_longest_unique: max() of an empty chainlist raises ValueError
ChainMaxFail ==
    /\ pc = "chain"
    /\ length = 0
    /\ chainlist = <<>>
    /\ pc' = "error"
    /\ err' = "ValueError"
    /\ UNCHANGED <<corpus, fileOK, idx, passes, once, odd_letter_count,
                   most_common_words, words_length_and_sum, MAXLEN, MAXSUM,
                   length_diff, min_sum, word_pairs_length_diff,
                   word_pairs_no_common, most_common, chainlist, length,
                   longest_list, string, calc_result>>

Next ==
    \/ OpenFile
    \/ OpenFail
    \/ ProcessLine
    \/ ProcessFileAgain
    \/ AnalyzeWordPais
    \/ FindMostCommonWordSum
    \/ FindMostCommonWordSumFail
    \/ ChainLengthStep
    \/ ChainMax
    \/ ChainMaxFail

Spec == Init /\ [][Next]_vars

SpecExample == InitExample /\ [][Next]_vars

-----------------------------------------------------------------------------
(* LetterSum.calculate called on its own *)

InitCalc ==
    /\ corpus = <<>>
    /\ fileOK = TRUE
    /\ Fresh
    /\ pc = "calc"
    /\ string \in SeqsUpTo(CalcChars, MaxStrLen)
    /\ calc_result = -1

\* LetterSum.calculate(string)
CalculateCall ==
    /\ pc = "calc"
    /\ calc_result' = Calculate(string)
    /\ pc' = "calc_done"
    /\ UNCHANGED <<corpus, fileOK, idx, passes, once, odd_letter_count,
                   most_common_words, words_length_and_sum, MAXLEN, MAXSUM,
                   length_diff, min_sum, word_pairs_length_diff,
                   word_pairs_no_common, most_common, chainlist, length,
                   longest_list, err, string>>

NextCalc == CalculateCall

SpecCalc == InitCalc /\ [][NextCalc]_vars

-----------------------------------------------------------------------------
(* Properties *)

\* every line _process_line has been called with, in call order
ProcessedLines ==
    IF passes = 2
    THEN corpus \o SubSeq(corpus, 1, idx)
    ELSE SubSeq(corpus, 1, idx)

WordsOf(seq) == {seq[k] : k \in DOMAIN seq}

KeyOf(w) == <<Len(w), Calculate(w)>>

\* analyze_word_pais has just returned
Returned == pc = "print"

\* process_file is running or has just returned
Building == pc = "reading"

StrictlyOrdered(chain) ==
    /\ \A k \in 1..(Len(chain) - 1) :
          /\ Len(chain[k]) > Len(chain[k + 1])
          /\ Calculate(chain[k]) < Calculate(chain[k + 1])
    /\ \A i, j \in DOMAIN chain :
          i # j => /\ Len(chain[i]) # Len(chain[j])
                   /\ Calculate(chain[i]) # Calculate(chain[j])

\* C1: every candidate chain in the pool after each length step, and the
\* chain find_longest_unique returns, has strictly descending word lengths and
\* strictly ascending letter sums, so no two of its words share a length or a
\* letter sum.
C1_ChainsStrictlyOrdered ==
    /\ \A i \in DOMAIN chainlist : StrictlyOrdered(chainlist[i])
    /\ StrictlyOrdered(longest_list)

C1_Witness ==
    /\ pc = "done"
    /\ Len(longest_list) >= 2
    /\ Len(chainlist) >= 2

\* C2: with the corpus geographically, eavesdropper, woodworker, oxymorons,
\* find_longest_unique returns exactly these four words, in that order.
C2_ExampleChainReproduced ==
    (pc = "done" /\ corpus = ExampleCorpus) => longest_list = ExampleCorpus

FirstLineWith(P, key) ==
    P[CHOOSE k \in DOMAIN P :
        /\ KeyOf(P[k]) = key
        /\ \A j \in 1..(k - 1) : KeyOf(P[j]) # key]

LastLineWith(P, key) ==
    P[CHOOSE k \in DOMAIN P :
        /\ KeyOf(P[k]) = key
        /\ \A j \in (k + 1)..Len(P) : KeyOf(P[j]) # key]

\* C3 (as stated): for every (length, sum) key of words_length_and_sum the
\* stored word is the FIRST processed line with that length and letter sum.
C3_FirstWins ==
    Building => \A key \in DOMAIN words_length_and_sum :
        words_length_and_sum[key] = FirstLineWith(ProcessedLines, key)

\* C3 (amended): the keys of words_length_and_sum are exactly the (length,
\* sum) pairs of the processed lines, and for every key the stored word is the
\* LAST processed line with that length and letter sum: a later line with the
\* same pair overwrites the stored word.
C3_LastWins ==
    Building =>
    /\ DOMAIN words_length_and_sum = {KeyOf(w) : w \in WordsOf(ProcessedLines)}
    /\ \A key \in DOMAIN words_length_and_sum :
          words_length_and_sum[key] = LastLineWith(ProcessedLines, key)

C3_Witness ==
    Building /\ \E key \in DOMAIN words_length_and_sum :
        /\ FirstLineWith(ProcessedLines, key) # LastLineWith(ProcessedLines, key)
        /\ words_length_and_sum[key] = LastLineWith(ProcessedLines, key)

CountOf(seq, x) == Cardinality({k \in DOMAIN seq : seq[k] = x})

\* C4: one run of _find_length_diff_pairs emits exactly the pairs (w1, w2) of
\* processed lines with equal letter sums and len(w2) = len(w1) + length_diff,
\* one pair per such combination of lines, and nothing else.
C4_LengthDiffPairsExact ==
    Returned =>
        LET P == ProcessedLines
            out == word_pairs_length_diff
        IN /\ \A k \in DOMAIN out :
                 /\ out[k][1] \in WordsOf(P) /\ out[k][2] \in WordsOf(P)
                 /\ Calculate(out[k][1]) = Calculate(out[k][2])
                 /\ Len(out[k][2]) = Len(out[k][1]) + length_diff
           /\ \A w1, w2 \in WordsOf(P) :
                 CountOf(out, <<w1, w2>>) =
                    Cardinality({ij \in (DOMAIN P) \X (DOMAIN P) :
                        /\ P[ij[1]] = w1 /\ P[ij[2]] = w2
                        /\ Calculate(w1) = Calculate(w2)
                        /\ Len(w2) = Len(w1) + length_diff})

C4_Witness ==
    /\ Returned
    /\ passes = 1
    /\ length_diff = 1
    /\ Len(word_pairs_length_diff) >= 2

NoSharedChar(w1, w2) == \A i \in DOMAIN w1 : \A j \in DOMAIN w2 : w1[i] # w2[j]

AsciiLetterValue(c) ==
    IF c \in 97..122 THEN c - 96 ELSE IF c \in 65..90 THEN c - 64 ELSE 0

RECURSIVE AsciiLetterSum(_)
AsciiLetterSum(str) ==
    IF str = <<>> THEN 0 ELSE AsciiLetterValue(Head(str)) + AsciiLetterSum(Tail(str))

\* C6: LetterSum.calculate adds the alphabet position 1..26 of every ASCII
\* letter (case-insensitively) and 0 for every other character, accented
\* letters included.
C6_OnlyAsciiLettersCount ==
    pc = "calc_done" => calc_result = AsciiLetterSum(string)

\* C7 (as stated): after process_file has run a second time over the same
\* lines, SumIndex and LengthSumIndex equal their content after the first run.
C7_SecondBuildIdentical ==
    (FileDone /\ passes = 2) =>
        /\ most_common_words = once.mcw
        /\ words_length_and_sum = once.wls

\* C7 (amended): after process_file has run a second time over the same lines
\* on the same analyzer, LengthSumIndex equals its content after the first
\* run, and SumIndex has the same keys in the same order with every bucket
\* holding its once-built content twice in succession.
C7_SecondBuildDoublesBuckets ==
    (FileDone /\ passes = 2) =>
        /\ words_length_and_sum = once.wls
        /\ Len(most_common_words) = Len(once.mcw)
        /\ \A b \in DOMAIN most_common_words :
              /\ most_common_words[b].key = once.mcw[b].key
              /\ most_common_words[b].words = once.mcw[b].words \o once.mcw[b].words

C7_Witness ==
    /\ FileDone
    /\ passes = 2
    /\ Len(most_common_words) >= 2
    /\ \E b \in DOMAIN once.mcw : Len(once.mcw[b].words) >= 2

\* C8: the only error the run can end in is the file-access error of a file
\* that cannot be opened; every readable word list runs to a result.
C8_OnlyFileAccessError ==
    pc = "error" => (err = "OSError" /\ ~fileOK)

LastSumOf(chain) == Calculate(chain[Len(chain)])

\* the sums s with lastSum(chain) < s < MAXSUM that have a word of the current length
Candidates(chain) ==
    {s \in 1..MAXSUM :
        /\ LastSumOf(chain) < s
        /\ s < MAXSUM
        /\ <<length, s>> \in DOMAIN words_length_and_sum}

Branches(chain) ==
    Candidates(chain) # {} /\ MinOf(Candidates(chain)) # LastSumOf(chain) + 1

\* C9: in a length step of find_longest_unique, a chain of the pool with no
\* candidate sum is left unchanged; one whose smallest candidate sum is
\* lastSum + 1 is extended in place by the word at that sum; any other stays
\* unchanged while a copy extended by the word at its smallest candidate sum
\* joins the pool behind the existing chains.  The pool grows by exactly one
\* chain per branching chain, plus the chain the step may start.
C9_ExtensionStep ==
    [][(pc = "chain" /\ length >= 1) =>
        LET n == Len(chainlist)
            wordAt(s) == words_length_and_sum[<<length, s>>]
            branching == {i \in 1..n : Branches(chainlist[i])}
            started == IF \E s \in 1..(MAXSUM - 1) :
                              <<length, s>> \in DOMAIN words_length_and_sum
                       THEN 1 ELSE 0
        IN /\ Len(chainlist') = n + Cardinality(branching) + started
           /\ \A i \in 1..n :
                 LET chain == chainlist[i]
                     C == Candidates(chain)
                 IN IF C = {}
                    THEN chainlist'[i] = chain
                    ELSE IF MinOf(C) = LastSumOf(chain) + 1
                         THEN chainlist'[i] = Append(chain, wordAt(MinOf(C)))
                         ELSE /\ chainlist'[i] = chain
                              /\ chainlist'[n + Cardinality({j \in branching : j <= i})]
                                    = Append(chain, wordAt(MinOf(C)))
    ]_vars

\* a branch has happened: the pool holds a chain and, behind it, its copy
\* extended by a word whose sum is not the next one
C9_Witness ==
    /\ pc = "chain"
    /\ \E i, j \in DOMAIN chainlist :
          /\ i < j
          /\ Len(chainlist[j]) = Len(chainlist[i]) + 1
          /\ SubSeq(chainlist[j], 1, Len(chainlist[i])) = chainlist[i]
          /\ LastSumOf(chainlist[j]) > LastSumOf(chainlist[i]) + 1
          /\ Len(chainlist[j][Len(chainlist[j])]) = length + 1

RECURSIVE TotalWords(_)
TotalWords(mcw) ==
    IF mcw = <<>> THEN 0 ELSE Len(Head(mcw).words) + TotalWords(Tail(mcw))

\* C10: after any number of processed lines, the buckets of SumIndex have
\* distinct keys, the bucket of sum s is exactly the subsequence of the
\* processed lines whose letter sum is s (file order, duplicates kept), every
\* processed line has its bucket, and the bucket sizes add up to the number of
\* processed lines.
C10_BucketsPartitionProcessedLines ==
    Building =>
    LET P == ProcessedLines
    IN /\ \A a, b \in DOMAIN most_common_words :
             a # b => most_common_words[a].key # most_common_words[b].key
       /\ \A b \in DOMAIN most_common_words :
             /\ most_common_words[b].words # <<>>
             /\ most_common_words[b].words =
                   SelectSeq(P, LAMBDA w : Calculate(w) = most_common_words[b].key)
       /\ \A k \in DOMAIN P : HasKey(most_common_words, Calculate(P[k]))
       /\ TotalWords(most_common_words) = Len(P)

C10_Witness ==
    /\ Building
    /\ passes = 1
    /\ idx = Len(corpus)
    /\ Len(corpus) >= 3
    /\ \E k \in DOMAIN corpus : corpus[k] = <<>>
    /\ Bucket(most_common_words, 0) # <<>>
    /\ \E b \in DOMAIN most_common_words :
          /\ most_common_words[b].key # 0
          /\ Len(most_common_words[b].words) = 2
          /\ most_common_words[b].words[1] = most_common_words[b].words[2]

====
